---- MODULE Spec2Model ----
(***************************************************************************)
(* The chat subsystem of the MindSync backend: the session-start gate, the *)
(* in-memory conversation store and the crisis-aware message dispatcher of *)
(* src/routes/chat.js, with the middleware (src/middleware/auth.js), the   *)
(* completion client (src/services/aiService.js) and the user aggregate    *)
(* (src/models/User.js) they call.                                         *)
(*                                                                         *)
(* Two specifications are given.                                           *)
(*   Spec         the application as mounted: every request passes the     *)
(*                repository's auth middleware (req.user.userId is the     *)
(*                ObjectId instance of the document that request loaded)   *)
(*                and, for POST /message, validateChat.                    *)
(*   SpecHandler  the route handlers of src/routes/chat.js driven          *)
(*                directly: req.user.userId is a primitive identifier and  *)
(*                req.body is what the handler destructures.  This is the  *)
(*                level at which the dispatcher's branches are reachable.  *)
(*                                                                         *)
(* Scheduling: Node's event loop.  Each action is one run-to-completion    *)
(* segment of a handler, from the resumption of an await to the next       *)
(* await (or to the response).  The awaited store operation takes effect   *)
(* at the resumption.  A response is held in `last` until it is handed to  *)
(* the socket (Sent); the next callback runs after that.                   *)
(***************************************************************************)
EXTENDS Integers, Sequences, FiniteSets, TLC

(* ----------------------------- bounds --------------------------------- *)
\* request slots that may be in flight at once
MaxReq == 2
\* requests over a behaviour that suspend in a handler or change the store
MaxIssued == 3
\* last value of the millisecond clock (Date.now())
MaxClock == 1
\* session starts admitted past the gate, through the application
MaxSessions == 2
\* session starts admitted past the gate, with the handlers driven directly
MaxHandlerSessions == 1

(* --------------------------- strings ---------------------------------- *)
\* A string is a sequence of one-character strings.
LowerMap ==
  ("A" :> "a") @@ ("B" :> "b") @@ ("C" :> "c") @@ ("D" :> "d") @@ ("E" :> "e") @@ ("F" :> "f")
  @@ ("G" :> "g") @@ ("H" :> "h") @@ ("I" :> "i") @@ ("J" :> "j") @@ ("K" :> "k") @@ ("L" :> "l")
  @@ ("M" :> "m") @@ ("N" :> "n") @@ ("O" :> "o") @@ ("P" :> "p") @@ ("Q" :> "q") @@ ("R" :> "r")
  @@ ("S" :> "s") @@ ("T" :> "t") @@ ("U" :> "u") @@ ("V" :> "v") @@ ("W" :> "w") @@ ("X" :> "x")
  @@ ("Y" :> "y") @@ ("Z" :> "z") @@ ("Á" :> "á") @@ ("É" :> "é") @@ ("Í" :> "í") @@ ("Ó" :> "ó")
  @@ ("Ú" :> "ú") @@ ("Ñ" :> "ñ")

\* String.prototype.toLowerCase
toLowerCase(s) ==
  [i \in 1..Len(s) |-> IF s[i] \in DOMAIN LowerMap THEN LowerMap[s[i]] ELSE s[i]]

\* String.prototype.includes
includes(s, k) ==
  \E i \in 1..(Len(s) - Len(k) + 1) : SubSeq(s, i, i + Len(k) - 1) = k

\* String.prototype.trim, as Joi's string().trim() applies it under convert
RECURSIVE trimLeft(_)
trimLeft(s) == IF s # <<>> /\ Head(s) = " " THEN trimLeft(Tail(s)) ELSE s

RECURSIVE trimRight(_)
trimRight(s) ==
  IF s # <<>> /\ s[Len(s)] = " " THEN trimRight(SubSeq(s, 1, Len(s) - 1)) ELSE s

trim(s) == trimRight(trimLeft(s))

\* Array.prototype.slice(0, n)
sliceFirst(s, n) == IF Len(s) <= n THEN s ELSE SubSeq(s, 1, n)

(* ------------------------ message texts ------------------------------- *)
\* chatSchema: message max(2000)
MaxMessageLength == 2000

\* The texts a client sends, by name.
Chars ==
  [ hola    |-> <<"h","o","l","a">>,
    padded  |-> <<" "," ","h","o","l","a"," ">>,
    kill    |-> <<"K","i","l","l"," ","M","e">>,
    ansioso |-> <<"m","e"," ","s","i","e","n","t","o"," ","a","n","s","i","o","s","o">>,
    empty   |-> <<>>,
    spaces  |-> <<" "," ">>,
    longest |-> [i \in 1..MaxMessageLength |-> "a"],
    toolong |-> [i \in 1..(MaxMessageLength + 1) |-> "a"] ]

Texts == DOMAIN Chars

\* the name of a sequence of characters
TextOf(s) == CHOOSE t \in Texts : Chars[t] = s

(* ------------------------ crisis detector ----------------------------- *)
crisisKeywords ==
  <<
    <<"s","u","i","c","i","d","i","o">>,
    <<"s","u","i","c","i","d","e">>,
    <<"m","a","t","a","r","m","é">>,
    <<"m","a","t","a","r","m","e">>,
    <<"l","a","s","t","i","m","a","r","m","e">>,
    <<"l","a","s","t","i","m","a","r","m","e">>,
    <<"n","o"," ","q","u","i","e","r","o"," ","v","i","v","i","r">>,
    <<"m","e"," ","q","u","i","e","r","o"," ","m","o","r","i","r">>,
    <<"q","u","i","e","r","o"," ","a","c","a","b","a","r"," ","c","o","n"," ","t","o","d","o">>,
    <<"k","i","l","l"," ","m","y","s","e","l","f">>,
    <<"e","n","d"," ","m","y"," ","l","i","f","e">>,
    <<"h","u","r","t"," ","m","y","s","e","l","f">>,
    <<"k","i","l","l"," ","m","e">>,
    <<"a","t","a","c","a","r">>,
    <<"h","e","r","i","r">>,
    <<"l","a","s","t","i","m","a","r">>,
    <<"v","i","o","l","e","n","c","e">>,
    <<"s","e","l","f","-","h","a","r","m">>,
    <<"d","e","p","r","e","s","i","ó","n"," ","s","e","v","e","r","a">>,
    <<"n","o"," ","p","u","e","d","o"," ","m","á","s">>,
    <<"c","a","n","n","o","t"," ","t","a","k","e"," ","i","t"," ","a","n","y","m","o","r","e">>,
    <<"t","r","y","i","n","g"," ","t","o"," ","e","n","d">>,
    <<"p","o","s","s","e","s","s","i","o","n"," ","o","v","e","r","d","o","s","e">>,
    <<"o","v","e","r","d","o","s","e">>,
    <<"d","r","o","g","a","s"," ","l","e","t","a","l","e","s">>
  >>

\* keywords.some(keyword => messageLower.includes(keyword))
some(keywords, messageLower) ==
  \E i \in 1..Len(keywords) : includes(messageLower, keywords[i])

\* detectCrisis on the characters of a message
detectCrisisOf(text) == some(crisisKeywords, toLowerCase(text))

detectCrisis(message) == detectCrisisOf(Chars[message])

\* aiService.js: the keyword lists of detectCrisisLevel
crisisLevelKeywords ==
  [ high |->
      << <<"s","u","i","c","i","d","i","o">>,
         <<"s","u","i","c","i","d","e">>,
         <<"m","a","t","a","r","m","é">>,
         <<"m","a","t","a","r","m","e">>,
         <<"n","o"," ","q","u","i","e","r","o"," ","v","i","v","i","r">>,
         <<"m","e"," ","q","u","i","e","r","o"," ","m","o","r","i","r">>,
         <<"k","i","l","l"," ","m","y","s","e","l","f">>,
         <<"e","n","d"," ","m","y"," ","l","i","f","e">>,
         <<"a","c","a","b","a","r"," ","c","o","n"," ","t","o","d","o">>,
         <<"c","a","n","n","o","t"," ","t","a","k","e"," ","i","t"," ","a","n","y","m","o","r","e">> >>,
    medium |->
      << <<"l","a","s","t","i","m","a","r","m","e">>,
         <<"l","a","s","t","i","m","a","r","m","e">>,
         <<"n","o"," ","p","u","e","d","o"," ","m","á","s">>,
         <<"q","u","i","e","r","o"," ","d","e","s","a","p","a","r","e","c","e","r">>,
         <<"h","u","r","t"," ","m","y","s","e","l","f">>,
         <<"n","o"," ","v","a","l","e"," ","l","a"," ","p","e","n","a">>,
         <<"n","o"," ","s","i","r","v","o"," ","p","a","r","a"," ","n","a","d","a">> >>,
    low |->
      << <<"m","u","y"," ","m","a","l">>,
         <<"h","o","r","r","i","b","l","e">>,
         <<"m","u","y"," ","t","r","i","s","t","e">>,
         <<"t","o","d","o"," ","e","s","t","á"," ","m","a","l">>,
         <<"a","y","u","d","a">>,
         <<"n","o"," ","s","é"," ","q","u","é"," ","h","a","c","e","r">>,
         <<"p","e","r","d","i","d","o">>,
         <<"s","i","n"," ","e","s","p","e","r","a","n","z","a">> >> ]

\* the tiers are tested lowest first
detectCrisisLevelLowFirst(text) ==
  LET messageLower == toLowerCase(text)
  IN  IF some(crisisLevelKeywords.low, messageLower) THEN "low"
      ELSE IF some(crisisLevelKeywords.medium, messageLower) THEN "medium"
      ELSE IF some(crisisLevelKeywords.high, messageLower) THEN "high"
      ELSE "none"

detectCrisisLevel(text) ==
  LET messageLower == toLowerCase(text)
  IN  IF some(crisisLevelKeywords.high, messageLower) THEN "high"
      ELSE IF some(crisisLevelKeywords.medium, messageLower) THEN "medium"
      ELSE IF some(crisisLevelKeywords.low, messageLower) THEN "low"
      ELSE "none"

\* the language of the bundle returned
generateCrisisResources(language) ==
  IF language = "es"
    THEN [type |-> "crisis_intervention", language |-> "es", phone |-> "123",
          actionRequired |-> "immediate", priority |-> "high"]
    ELSE [type |-> "crisis_intervention", language |-> "en", phone |-> "911",
          actionRequired |-> "immediate", priority |-> "high"]

(* ---------------------- suggestion generator -------------------------- *)
suggestionRules ==
  << [keys |-> << <<"a","n","s","i","e","d","a","d">>, <<"n","e","r","v","i","o","s">>,
                  <<"e","s","t","r","e","s">> >>,
      push |-> <<"Técnicas de relajación", "Ejercicios de respiración", "Mindfulness">>],
     [keys |-> << <<"t","r","i","s","t","e">>, <<"d","e","p","r","e","s","i","o","n">>,
                  <<"m","a","l">> >>,
      push |-> <<"Actividades que disfruto", "Reflexionar sobre logros",
                 "Hablar con alguien de confianza">>],
     [keys |-> << <<"s","u","e","n","o">>, <<"d","o","r","m","i","r">>,
                  <<"i","n","s","o","m","n","i","o">> >>,
      push |-> <<"Rutina de sueño", "Técnicas de relajación nocturna", "Higiene del sueño">>],
     [keys |-> << <<"t","r","a","b","a","j","o">>, <<"l","a","b","o","r","a","l">>,
                  <<"j","e","f","e">> >>,
      push |-> <<"Gestión del estrés laboral", "Comunicación asertiva",
                 "Equilibrio vida-trabajo">>],
     [keys |-> << <<"f","a","m","i","l","i","a">>, <<"p","a","r","e","j","a">>,
                  <<"r","e","l","a","c","i","o","n">> >>,
      push |-> <<"Comunicación efectiva", "Límites saludables", "Resolución de conflictos">>]
  >>

generalSuggestions ==
  <<"Cuéntame más sobre esto", "¿Cómo te hace sentir?", "¿Qué has intentado antes?",
    "Practicar mindfulness", "Ejercicios de gratitud">>

RECURSIVE scanSuggestions(_, _)
scanSuggestions(messageLower, n) ==
  IF n = 0 THEN <<>>
  ELSE LET rule == suggestionRules[n]
           hit  == \E i \in 1..Len(rule.keys) : includes(messageLower, rule.keys[i])
       IN  scanSuggestions(messageLower, n - 1) \o (IF hit THEN rule.push ELSE <<>>)

\* generateSuggestions on the characters of a message
generateSuggestionsOf(text) ==
  LET messageLower == toLowerCase(text)
      specific     == scanSuggestions(messageLower, Len(suggestionRules))
      suggestions  == IF Len(specific) = 0 THEN generalSuggestions ELSE specific
  IN  sliceFirst(suggestions, 4)

generateSuggestions(userMessage) == generateSuggestionsOf(Chars[userMessage])

fallbackSuggestions ==
  <<"Técnicas de respiración", "Escribir en mi diario", "Ejercicios de mindfulness",
    "Hablar con un profesional">>

(* ----------------------------- state ----------------------------------- *)
VARIABLES
  now,            \* Date.now(), in milliseconds
  users,          \* the User collection: one document per user
  conversations,  \* chat.js: const conversations = new Map(); key -> object reference
  heap,           \* the conversation objects the Map's values refer to
  req,            \* the requests in flight, one per slot, suspended at an await
  issued,         \* requests that suspended in a handler or changed the store so far
  last,           \* the response on its way out, with the request it answers
  returned,       \* the conversation ids sent in 200 responses of /session/start
  build,          \* the route and model files the process has loaded
  tracker,        \* the stored document of the user of the progress routes
  submitted,      \* the moods accepted so far, in submission order
  accounts,       \* the User collection of the auth routes
  pending,        \* the auth requests in flight, suspended at an await
  clock,          \* Date.now() of the auth routes, in hours
  out,            \* the response of the last progress or auth request
  input,          \* the argument of a function called on its own
  output          \* what the function returned

chatVars == <<now, users, conversations, heap, req, issued, last, returned>>
progressVars == <<tracker, submitted>>
authVars == <<accounts, pending, clock>>
callVars == <<input, output>>
vars == <<chatVars, build, progressVars, authVars, out, callVars>>

Users == {"A", "B"}
Slots == 1..MaxReq
Clock == 0..MaxClock

\* `conv_${userId}_${Date.now()}`: the user id's string and the clock value
ConvIds == Users \X Clock
\* a key no request carries (req.body.conversationId undefined)
Undefined == <<>>
\* no object: Map.prototype.get returned undefined
NoObject == 0

(* --------------------------- User model ------------------------------- *)
limits == [free |-> 5, basic |-> 20, premium |-> -1]

\* the quota compared with <= instead of <
canStartSessionOffByOne(user) ==
  LET limit == limits[user.subscriptionPlan]
  IN  limit = -1 \/ user.stats.sessionsThisWeek <= limit

canStartSession(user) ==
  LET limit == limits[user.subscriptionPlan]
  IN  limit = -1 \/ user.stats.sessionsThisWeek < limit

\* 1000 * 60 * 60 * 24
MsPerDay == 86400000

\* the document after the assignments of updateSessionStats, before save()
updateSessionStats(user, date) ==
  LET counted == [user EXCEPT !.stats.totalSessions = @ + 1,
                              !.stats.sessionsThisWeek = @ + 1,
                              !.stats.lastSessionDate = date]
      lastSession == counted.stats.lastSessionDate
      daysSinceLastSession == (date - lastSession) \div MsPerDay
  IN  IF daysSinceLastSession = 1
        THEN [counted EXCEPT !.stats.streakDays = @ + 1]
        ELSE IF daysSinceLastSession > 1
          THEN [counted EXCEPT !.stats.streakDays = 1]
          ELSE counted

\* document.save(): the paths the request assigned are written, the others kept
save(stored, doc, modified) ==
  [stored EXCEPT !.stats = [f \in DOMAIN stored.stats |->
                              IF f \in modified THEN doc.stats[f] ELSE stored.stats[f]]]

NewUser(plan, sessions, language) ==
  [subscriptionPlan |-> plan,
   preferences |-> [language |-> language],
   stats |-> [totalSessions |-> sessions, totalMessages |-> 0,
              sessionsThisWeek |-> sessions, lastSessionDate |-> -1,
              streakDays |-> 0]]

(* ----------------------------- requests ------------------------------- *)
NoBody == [message |-> "empty", conversationId |-> Undefined, context |-> 0]

NoRes == [status |-> 0, type |-> "none", conversationId |-> Undefined,
          content |-> "", suggestions |-> <<>>, data |-> "", exposed |-> NoObject]

Idle ==
  [pc |-> "idle", kind |-> "none", userId |-> <<"-", 0>>,
   body |-> NoBody, conversationId |-> Undefined, conversation |-> NoObject,
   doc |-> NewUser("free", 0, "es"), seen |-> -1, owner |-> "none",
   message |-> "empty", context |-> 0, crisis |-> FALSE, calls |-> 0,
   upstream |-> "none", reply |-> [content |-> "", suggestions |-> <<>>, type |-> "none"],
   solo |-> TRUE, storeFailed |-> FALSE]

\* the response `res` to request `q`, as recorded in `last`
Answer(q, res) ==
  [kind |-> q.kind, userId |-> q.userId, owner |-> q.owner,
   message |-> q.body.message, conversationId |-> q.body.conversationId,
   crisis |-> q.crisis, calls |-> q.calls,
   upstream |-> q.upstream, storeFailed |-> q.storeFailed, seen |-> q.seen,
   solo |-> q.solo, res |-> res]

NoAnswer == Answer(Idle, NoRes)

\* no response is on its way out: the next callback of the event loop may run
Ready == last = NoAnswer

\* the user a userId names: String(userId)
UserOf(userId) == userId[1]

\* a request is taken into the first idle slot
Free(r) ==
  /\ Ready
  /\ req[r].pc = "idle"
  /\ \A s \in Slots : s < r => req[s].pc # "idle"

\* the request in slot r suspends at an await of its handler
Suspend(r, q) ==
  /\ issued < MaxIssued
  /\ issued' = issued + 1
  /\ req' = [req EXCEPT ![r] = q]
  /\ last' = NoAnswer

\* res.status(status).json(...) by the request in slot r
Respond(r, q, res) ==
  /\ req' = [req EXCEPT ![r] = Idle]
  /\ last' = Answer(q, res)

\* res.status(status).json(...) by a request that never suspended
Reply(q, res) ==
  /\ last' = Answer(q, res)
  /\ UNCHANGED <<req, issued>>

Error(status) == [NoRes EXCEPT !.status = status, !.type = "error"]

(* ------------------------- response delivery -------------------------- *)
\* res.json(...) has handed the response to the socket
Sent ==
  /\ ~Ready
  /\ last' = NoAnswer
  /\ UNCHANGED <<now, users, conversations, heap, req, issued, returned>>

(* --------------------------- the clock -------------------------------- *)
Tick ==
  /\ Ready
  /\ now < MaxClock
  /\ now' = now + 1
  /\ last' = NoAnswer
  /\ UNCHANGED <<users, conversations, heap, req, issued, returned>>

(* ----------------------- POST /session/start -------------------------- *)
NewConversation(userId, sessionId, date) ==
  [userId |-> userId, sessionId |-> sessionId, messages |-> <<>>,
   context |-> [currentMood |-> 5, sessionStart |-> date, lastActivity |-> date]]

\* checkSessionLimit after its findById, then the handler up to its findById
StartSession(r, userId) ==
  /\ Free(r)
  /\ \E found \in BOOLEAN :
       LET u == UserOf(userId)
           q == [Idle EXCEPT !.kind = "start", !.userId = userId,
                             !.storeFailed = ~found,
                             !.seen = IF found THEN users[u].stats.sessionsThisWeek
                                               ELSE -1]
           conversationId == <<u, now>>
       IN  IF ~found
             THEN /\ Reply(q, Error(500))
                  /\ UNCHANGED <<conversations, heap>>
             ELSE IF ~canStartSession(users[u])
               THEN /\ Reply(q, Error(429))
                    /\ UNCHANGED <<conversations, heap>>
               ELSE /\ heap' = Append(heap, NewConversation(userId, conversationId, now))
                    /\ conversations' =
                         [conversations EXCEPT ![conversationId] = Len(heap) + 1]
                    /\ Suspend(r, [q EXCEPT !.pc = "created",
                                              !.conversationId = conversationId])
  /\ UNCHANGED <<now, users, returned>>

\* the message put at the head of the list
unshift(messages, message) == <<message>> \o messages

\* conversation.messages.push(message)
push(messages, message) == Append(messages, message)

welcome(slot) ==
  [role |-> "system", content |-> "welcome", type |-> "welcome",
   suggestions |-> <<>>, context |-> 0, of |-> slot]

\* the slots suspended in generateResponse on a conversation
Completing(conversation) ==
  {s \in Slots : req[s].pc = "completing" /\ req[s].conversation = conversation}

\* the handler after `await User.findById(userId)` up to `await user.save()`
StartUserLoaded(r) ==
  /\ Ready
  /\ req[r].pc = "created"
  /\ \E found \in BOOLEAN :
       LET q == req[r]
           conversation == conversations[q.conversationId]
       IN  IF ~found \/ conversation = NoObject
             THEN /\ Respond(r, [q EXCEPT !.storeFailed = ~found], Error(500))
                  /\ heap' = heap
             ELSE /\ heap' = [heap EXCEPT ![conversation].messages =
                                 push(@, welcome(r))]
                  /\ req' = [s \in Slots |->
                       IF s = r
                         THEN [q EXCEPT !.pc = "saving",
                                        !.doc = updateSessionStats(
                                                  users[UserOf(q.userId)], now)]
                         ELSE IF s \in Completing(conversation)
                           THEN [req[s] EXCEPT !.solo = FALSE]
                           ELSE req[s]]
                  /\ last' = NoAnswer
  /\ UNCHANGED <<now, users, conversations, issued, returned>>

\* the handler after `await user.updateSessionStats()`
StartSaved(r) ==
  /\ Ready
  /\ req[r].pc = "saving"
  /\ \E saved \in BOOLEAN :
       LET q == req[r]
           u == UserOf(q.userId)
       IN  IF ~saved
             THEN /\ Respond(r, [q EXCEPT !.storeFailed = TRUE], Error(500))
                  /\ UNCHANGED <<users, returned>>
             ELSE /\ users' = [users EXCEPT ![u] =
                       save(@, q.doc, {"totalSessions", "sessionsThisWeek",
                                       "lastSessionDate"})]
                  /\ returned' = Append(returned, q.conversationId)
                  /\ Respond(r, q, [NoRes EXCEPT !.status = 200, !.type = "session",
                                                 !.conversationId = q.conversationId])
  /\ UNCHANGED <<now, conversations, heap, issued>>

(* ------------------------ completion client --------------------------- *)
\* what the upstream call does: a completion, an exception or timeout, or a
\* response without choices[0].message
Upstream == {"ok", "throw", "malformed"}

\* generateResponse, given what its one upstream call did
generateResponse(message, outcome) ==
  IF outcome = "ok"
    THEN [content |-> "completion", suggestions |-> generateSuggestions(message),
          type |-> "text"]
    ELSE [content |-> "Lo siento, estoy experimentando dificultades técnicas",
          suggestions |-> fallbackSuggestions, type |-> "fallback"]

(* ------------------------- conversation store ------------------------- *)
\* conversations.get(conversationId)
get(conversationId) ==
  IF conversationId \in DOMAIN conversations
    THEN conversations[conversationId] ELSE NoObject

\* the ownership comparison is left out
ownsAny(conversation, userId) == TRUE

\* conversation.userId === userId
owns(conversation, userId) == heap[conversation].userId = userId

\* the user whose session start created the conversation a key names
OwnerOf(conversationId) ==
  IF get(conversationId) = NoObject
    THEN "none" ELSE UserOf(heap[get(conversationId)].userId)

(* -------------------------- POST /message ----------------------------- *)
\* the detector never fires
isCrisisNever(message) == FALSE

\* const isCrisis = detectCrisis(message)
isCrisis(message) == detectCrisis(message)

\* a message of a conversation; `of` is the slot of the request that pushed it
Message1(role, content, type, suggestions, context, slot) ==
  [role |-> role, content |-> content, type |-> type, suggestions |-> suggestions,
   context |-> context, of |-> slot]

\* the handler from its entry to its first await; `sent` is the body the client sent
Message(r, userId, body, sent) ==
  /\ Free(r)
  /\ LET conversation == get(body.conversationId)
         q == [Idle EXCEPT !.kind = "message", !.userId = userId,
                           !.body = sent,
                           !.owner = OwnerOf(sent.conversationId),
                           !.conversationId = body.conversationId,
                           !.message = body.message, !.context = body.context]
     IN  IF conversation = NoObject \/ ~owns(conversation, userId)
           THEN /\ Reply(q, Error(404))
                /\ heap' = heap
           ELSE IF isCrisis(body.message)
             THEN /\ Suspend(r, [q EXCEPT !.pc = "crisis", !.crisis = TRUE,
                                           !.conversation = conversation])
                  /\ heap' = heap
             ELSE /\ heap' = [heap EXCEPT ![conversation].messages =
                       push(@, Message1("user", body.message, "none", <<>>,
                                        body.context, r))]
                  /\ issued < MaxIssued
                  /\ issued' = issued + 1
                  /\ req' = [s \in Slots |->
                       IF s = r
                         THEN [q EXCEPT !.pc = "completing",
                                        !.conversation = conversation,
                                        !.calls = 1,
                                        !.solo = (Completing(conversation) = {})]
                         ELSE IF s \in Completing(conversation)
                           THEN [req[s] EXCEPT !.solo = FALSE]
                           ELSE req[s]]
                  /\ last' = NoAnswer
  /\ UNCHANGED <<now, users, conversations, returned>>

\* the crisis branch after `await User.findById(userId)`
CrisisUserLoaded(r) ==
  /\ Ready
  /\ req[r].pc = "crisis"
  /\ \E found \in BOOLEAN :
       LET q == req[r]
           language == users[UserOf(q.userId)].preferences.language
       IN  IF ~found
             THEN Respond(r, [q EXCEPT !.storeFailed = TRUE], Error(500))
             ELSE Respond(r, q, [NoRes EXCEPT !.status = 200, !.type = "crisis_alert",
                                   !.data = generateCrisisResources(language).language])
  /\ UNCHANGED <<now, users, conversations, heap, issued, returned>>

\* the handler after `await aiService.generateResponse(...)` up to findById
CompletionDone(r) ==
  /\ Ready
  /\ req[r].pc = "completing"
  /\ \E outcome \in Upstream :
       LET q == req[r]
           aiResponse == generateResponse(q.message, outcome)
           aiMessage == Message1("assistant", aiResponse.content, aiResponse.type,
                                 aiResponse.suggestions, 0, r)
       IN  /\ heap' = [heap EXCEPT
                 ![q.conversation].messages = push(@, aiMessage),
                 ![q.conversation].context =
                    [@ EXCEPT !.lastActivity = now,
                              !.currentMood = IF q.context # 0 THEN q.context ELSE @]]
           /\ req' = [req EXCEPT ![r] =
                 [q EXCEPT !.pc = "stats", !.upstream = outcome,
                           !.reply = aiResponse]]
  /\ last' = NoAnswer
  /\ UNCHANGED <<now, users, conversations, issued, returned>>

\* the handler after `await User.findById(userId)` up to `await user.save()`
StatsUserLoaded(r) ==
  /\ Ready
  /\ req[r].pc = "stats"
  /\ \E found \in BOOLEAN :
       LET q == req[r]
       IN  IF ~found
             THEN Respond(r, [q EXCEPT !.storeFailed = TRUE], Error(500))
             ELSE /\ req' = [req EXCEPT ![r] =
                       [q EXCEPT !.pc = "stats_save",
                                 !.doc = [users[UserOf(q.userId)] EXCEPT
                                            !.stats.totalMessages = @ + 1]]]
                  /\ last' = NoAnswer
  /\ UNCHANGED <<now, users, conversations, heap, issued, returned>>

\* the handler after `await user.save()`
StatsSaved(r) ==
  /\ Ready
  /\ req[r].pc = "stats_save"
  /\ \E saved \in BOOLEAN :
       LET q == req[r]
       IN  IF ~saved
             THEN /\ Respond(r, [q EXCEPT !.storeFailed = TRUE], Error(500))
                  /\ users' = users
             ELSE /\ users' = [users EXCEPT ![UserOf(q.userId)] =
                       save(@, q.doc, {"totalMessages"})]
                  /\ Respond(r, q, [NoRes EXCEPT !.status = 200, !.type = "message",
                                      !.conversationId = q.conversationId,
                                      !.content = q.reply.content,
                                      !.suggestions = q.reply.suggestions])
  /\ UNCHANGED <<now, conversations, heap, issued, returned>>

(* ---------------- GET /conversation/:conversationId ------------------- *)
GetConversation(userId, conversationId) ==
  /\ Ready
  /\ LET conversation == get(conversationId)
         q == [Idle EXCEPT !.kind = "get", !.userId = userId,
                           !.body = [NoBody EXCEPT !.conversationId = conversationId],
                           !.owner = OwnerOf(conversationId),
                           !.conversationId = conversationId]
     IN  IF conversation = NoObject \/ ~owns(conversation, userId)
           THEN Reply(q, Error(404))
           ELSE Reply(q, [NoRes EXCEPT !.status = 200, !.type = "conversation",
                                 !.conversationId = conversationId,
                                 !.exposed = conversation])
  /\ UNCHANGED <<now, users, conversations, heap, returned>>

(* ------------------------ POST /session/end --------------------------- *)
SessionEnd(userId, body) ==
  /\ Ready
  /\ LET conversationId == body.conversationId
         q == [Idle EXCEPT !.kind = "end", !.userId = userId,
                           !.body = body, !.owner = OwnerOf(conversationId),
                           !.conversationId = conversationId]
         res == [NoRes EXCEPT !.status = 200, !.type = "ended"]
     IN  IF /\ conversationId # Undefined
            /\ get(conversationId) # NoObject
            /\ owns(get(conversationId), userId)
           THEN /\ conversations' = [conversations EXCEPT ![conversationId] = NoObject]
                /\ issued < MaxIssued
                /\ issued' = issued + 1
                /\ last' = Answer(q, res)
                /\ req' = req
           ELSE /\ conversations' = conversations
                /\ Reply(q, res)
  /\ UNCHANGED <<now, users, heap, returned>>

(* ---------------------------- middleware ------------------------------ *)
\* auth: req.user.userId = user._id of the document this request loaded, an
\* ObjectId instance of its own (the second component tells instances apart)
auth(u) == <<u, issued + 1>>

\* chatSchema: the keys it defines and the rule of `message`
chatSchema == [keys |-> {"message", "context"}, min |-> 1, max |-> MaxMessageLength]

\* validate(schema)(req, res, next): {error, value} of schema.validate with
\* stripUnknown and convert
validate(schema, body) ==
  LET message == trim(Chars[body.message])
  IN  [error |-> Len(message) < schema.min \/ Len(message) > schema.max,
       value |-> [message |-> IF Len(message) > schema.max
                                 THEN body.message ELSE TextOf(message),
                  conversationId |-> IF "conversationId" \in schema.keys
                                        THEN body.conversationId ELSE Undefined,
                  context |-> IF "context" \in schema.keys THEN body.context ELSE 0]]

(* ------------------------------ inputs -------------------------------- *)
\* the mood a client may report in context.currentMood; 0: no context sent
Moods == {0, 7}

\* request bodies of POST /message sent to the application
Bodies == [message : {"hola", "padded", "empty"}, conversationId : ConvIds \cup {Undefined}, context : Moods]

\* request bodies handed to the handler of POST /message
HandlerBodies ==
  [message : {"hola"}, conversationId : ConvIds \cup {Undefined}, context : Moods]
  \cup [message : {"kill"}, conversationId : ConvIds \cup {Undefined}, context : {0}]

\* request bodies of POST /session/end
EndBodies == {[NoBody EXCEPT !.conversationId = c] : c \in ConvIds \cup {Undefined}}

\* plan and sessionsThisWeek of user A at the start; B is a basic user one
\* session below the quota
Accounts == {<<"free", limits.free - 1>>, <<"premium", limits.basic>>}

\* the state after the process started, with A's account `a`
InitWith(a) ==
  /\ now = 0
  /\ users = [u \in Users |->
                IF u = "A" THEN NewUser(a[1], a[2], "es")
                           ELSE NewUser("basic", limits.basic - 1, "en")]
  /\ conversations = [c \in ConvIds |-> NoObject]
  /\ heap = <<>>
  /\ req = [r \in Slots |-> Idle]
  /\ issued = 0
  /\ last = NoAnswer
  /\ returned = <<>>

\* the progress and auth routes at rest
NoOut == [kind |-> "none", status |-> 0]
NoTracker == [moodAverage |-> 0, daysTracked |-> 0, totalSessions |-> 0,
              moodTrends |-> <<>>]
NoBuild == [progress |-> "none", routes |-> "none", model |-> "none"]

ProgressInit == tracker = NoTracker /\ submitted = <<>>
AuthInit == accounts = <<>> /\ pending = <<>> /\ clock = 0
CallInit == input = <<>> /\ output = NoOut

\* a step of the chat routes leaves the other routes' state alone
ChatOnly == UNCHANGED <<build, progressVars, authVars, out, callVars>>

ChatInit(a) ==
  /\ InitWith(a)
  /\ build = NoBuild
  /\ ProgressInit
  /\ AuthInit
  /\ CallInit
  /\ out = NoOut

Init == \E a \in Accounts : ChatInit(a)

(* ---------------------- the application, mounted ---------------------- *)
\* validateChat answered 400
Rejected(userId, sent) ==
  /\ Ready
  /\ Reply([Idle EXCEPT !.kind = "message", !.userId = userId,
                             !.body = sent,
                             !.owner = OwnerOf(sent.conversationId)],
             Error(400))
  /\ UNCHANGED <<now, users, conversations, heap, returned>>

\* router.post('/session/start', auth, checkSessionLimit, handler)
RouteSessionStart(r) ==
  /\ Len(heap) < MaxSessions
  /\ \E u \in Users : StartSession(r, auth(u))

\* router.post('/message', auth, validateChat, handler)
RouteMessage(r) ==
  \E u \in Users, sent \in Bodies :
    LET v == validate(chatSchema, sent)
    IN  IF v.error THEN Rejected(auth(u), sent)
                   ELSE Message(r, auth(u), v.value, sent)

\* router.get('/conversation/:conversationId', auth, handler)
RouteGetConversation ==
  \E u \in Users, c \in ConvIds : GetConversation(auth(u), c)

\* router.post('/session/end', auth, handler)
RouteSessionEnd ==
  \E u \in Users, body \in EndBodies : SessionEnd(auth(u), body)

Next ==
  \/ Sent /\ ChatOnly
  \/ Tick /\ ChatOnly
  \/ \E r \in Slots : RouteSessionStart(r) /\ ChatOnly
  \/ \E r \in Slots : StartUserLoaded(r) /\ ChatOnly
  \/ \E r \in Slots : StartSaved(r) /\ ChatOnly
  \/ \E r \in Slots : RouteMessage(r) /\ ChatOnly
  \/ RouteGetConversation /\ ChatOnly
  \/ RouteSessionEnd /\ ChatOnly

Spec == Init /\ [][Next]_vars

(* ------------------- the handlers, driven directly -------------------- *)
\* req.user.userId as a primitive identifier
Caller(u) == <<u, 0>>

\* the users who start sessions when the handlers are driven directly
Starters == {"A"}

HandleSessionStart(r) ==
  /\ Len(heap) < MaxHandlerSessions
  /\ \E u \in Starters : StartSession(r, Caller(u))

HandleMessage(r) ==
  \E u \in Users, body \in HandlerBodies : Message(r, Caller(u), body, body)

HandleGetConversation ==
  \E u \in Users, c \in ConvIds : GetConversation(Caller(u), c)

HandleSessionEnd ==
  \E u \in Users, body \in EndBodies : SessionEnd(Caller(u), body)

NextHandler ==
  \/ Sent /\ ChatOnly
  \/ \E r \in Slots : HandleSessionStart(r) /\ ChatOnly
  \/ \E r \in Slots : StartUserLoaded(r) /\ ChatOnly
  \/ \E r \in Slots : StartSaved(r) /\ ChatOnly
  \/ \E r \in Slots : HandleMessage(r) /\ ChatOnly
  \/ \E r \in Slots : CrisisUserLoaded(r) /\ ChatOnly
  \/ \E r \in Slots : CompletionDone(r) /\ ChatOnly
  \/ \E r \in Slots : StatsUserLoaded(r) /\ ChatOnly
  \/ \E r \in Slots : StatsSaved(r) /\ ChatOnly
  \/ HandleGetConversation /\ ChatOnly
  \/ HandleSessionEnd /\ ChatOnly

InitHandler == ChatInit(<<"free", limits.free - 1>>)

SpecHandler == InitHandler /\ [][NextHandler]_vars

(* ------------------------- progress routes ---------------------------- *)
\* moods are held in tenths: 70 is the mood 7, 75 the mood 7.5
MoodCap == 100
HistoryWindow == 30
DefaultMood == 50
MoodSpread == 20

\* calls of addMoodEntry over a behaviour
MaxInserts == 105
\* mood submissions through the progress routes over a behaviour
MaxMoodPosts == 3

\* Array.prototype.slice(-n)
sliceLast(s, n) == IF Len(s) <= n THEN s ELSE SubSeq(s, Len(s) - n + 1, Len(s))

MoodEntry(date, mood, context) == [date |-> date, mood |-> mood, context |-> context]

\* the oldest entries are kept instead of the most recent
addMoodEntryKeepFirst(moodTrends, mood, context, date) ==
  LET pushed == Append(moodTrends, MoodEntry(date, mood, context))
  IN  IF Len(pushed) > MoodCap THEN sliceFirst(pushed, MoodCap) ELSE pushed

\* userSchema.methods.addMoodEntry: stats.moodTrends as its save() stores it
addMoodEntry(moodTrends, mood, context, date) ==
  LET pushed == Append(moodTrends, MoodEntry(date, mood, context))
  IN  IF Len(pushed) > MoodCap THEN sliceLast(pushed, MoodCap) ELSE pushed

\* the moods of a list of entries
MoodsOf(entries) == [i \in 1..Len(entries) |-> entries[i].mood]

\* !mood || mood < 1 || mood > 10
moodRejected(mood) == mood = 0 \/ mood < 10 \/ mood > 100

\* Math.round(x / d) for x >= 0, d > 0
roundDiv(x, d) == (2 * x + d) \div (2 * d)

\* Math.round(newMoodAverage * 10) / 10, in tenths
newMoodAverage(user, mood) ==
  roundDiv(user.moodAverage * user.daysTracked + mood, user.daysTracked + 1)

\* Math.max(1, Math.min(10, Math.round(baseMood + variation))) for the
\* variations (Math.random() - 0.5) * 4 can take
simulatedMoods(baseMood) ==
  {10 * r : r \in {r \in 1..10 :
     \E x \in {y \in -3..14 : 10 * y > baseMood - MoodSpread - 5
                            /\ 10 * y < baseMood + MoodSpread + 5} :
        r = IF x < 1 THEN 1 ELSE IF x > 10 THEN 10 ELSE x}}

Min(a, b) == IF a < b THEN a ELSE b

\* the histories router.get('/mood-history') of the running-average file can send
simulatedHistories(user) ==
  LET days == user.daysTracked
      baseMood == IF user.moodAverage = 0 THEN DefaultMood ELSE user.moodAverage
  IN  [1..Min(days, HistoryWindow) -> simulatedMoods(baseMood)]

\* the mood values clients send; 0 also stands for a missing mood
MoodInputs == {0, 30, 70, 75, 110}

ProgressOnly == UNCHANGED <<chatVars, build, authVars, callVars>>

\* router.post('/') of the running-average file (part_005, 99-175)
PostMoodAverage(mood) ==
  /\ build.progress = "average"
  /\ \E stored \in {"ok", "missing", "error"} :
       IF moodRejected(mood)
         THEN /\ out' = [kind |-> "mood", status |-> 400, mood |-> mood]
              /\ UNCHANGED progressVars
         ELSE IF stored # "ok"
           THEN /\ out' = [kind |-> "mood", mood |-> mood,
                           status |-> IF stored = "missing" THEN 404 ELSE 500]
                /\ UNCHANGED progressVars
           ELSE /\ Len(submitted) < MaxMoodPosts
                /\ tracker' = [tracker EXCEPT
                                 !.moodAverage = newMoodAverage(tracker, mood),
                                 !.daysTracked = @ + 1]
                /\ submitted' = Append(submitted, mood)
                /\ out' = [kind |-> "mood", status |-> 200, mood |-> mood]
  /\ ProgressOnly

\* router.post('/') of the moodTrends file (part_005, 453-494)
PostMoodTrends(mood) ==
  /\ build.progress = "trends"
  /\ \E stored \in {"ok", "save", "update"} :
       IF moodRejected(mood)
         THEN /\ out' = [kind |-> "mood", status |-> 400, mood |-> mood]
              /\ UNCHANGED progressVars
         ELSE IF stored = "save"
           THEN /\ out' = [kind |-> "mood", status |-> 500, mood |-> mood]
                /\ UNCHANGED progressVars
           ELSE /\ Len(submitted) < MaxMoodPosts
                /\ tracker' = [tracker EXCEPT
                                 !.moodTrends = addMoodEntry(@, mood, "reported", now),
                                 !.totalSessions =
                                    IF stored = "ok" THEN @ + 1 ELSE @]
                /\ submitted' = Append(submitted, mood)
                /\ out' = [kind |-> "mood", mood |-> mood,
                           status |-> IF stored = "ok" THEN 200 ELSE 500]
  /\ ProgressOnly

\* router.get('/mood-history') of the running-average file (part_005, 178-245)
GetMoodHistoryAverage ==
  /\ build.progress = "average"
  /\ \E history \in simulatedHistories(tracker) :
       out' = [kind |-> "history", status |-> 200, history |-> history]
  /\ UNCHANGED progressVars
  /\ ProgressOnly

\* router.get('/mood-history') of the moodTrends file (part_005, 497-523)
GetMoodHistoryTrends ==
  /\ build.progress = "trends"
  /\ out' = [kind |-> "history", status |-> 200,
             history |-> MoodsOf(sliceLast(tracker.moodTrends, HistoryWindow))]
  /\ UNCHANGED progressVars
  /\ ProgressOnly

InitProgress ==
  /\ InitWith(<<"free", limits.free - 1>>)
  /\ build \in {[NoBuild EXCEPT !.progress = f] : f \in {"average", "trends"}}
  /\ ProgressInit
  /\ AuthInit
  /\ CallInit
  /\ out = NoOut

NextProgress ==
  \/ \E mood \in MoodInputs : PostMoodAverage(mood)
  \/ \E mood \in MoodInputs : PostMoodTrends(mood)
  \/ GetMoodHistoryAverage
  \/ GetMoodHistoryTrends

SpecProgress == InitProgress /\ [][NextProgress]_vars

(* ----------------- addMoodEntry, called again and again --------------- *)
\* the moods of successive calls run through a cycle from any start
CycleMoods == {10, 20, 30, 40, 50, 60, 70}

NextMoods ==
  IF submitted = <<>>
    THEN CycleMoods
    ELSE {IF submitted[Len(submitted)] = 70 THEN 10
                                            ELSE submitted[Len(submitted)] + 10}

\* user.addMoodEntry(mood, context) on the stored user
AddMoodEntry ==
  /\ Len(submitted) < MaxInserts
  /\ \E mood \in NextMoods :
       /\ tracker' = [tracker EXCEPT
                        !.moodTrends = addMoodEntry(@, mood, "reported", now)]
       /\ submitted' = Append(submitted, mood)
  /\ out' = out
  /\ ProgressOnly

InitMoodTrends ==
  /\ InitWith(<<"free", limits.free - 1>>)
  /\ build = [NoBuild EXCEPT !.progress = "trends"]
  /\ ProgressInit
  /\ AuthInit
  /\ CallInit
  /\ out = NoOut

NextMoodTrends == AddMoodEntry

SpecMoodTrends == InitMoodTrends /\ [][NextMoodTrends]_vars

(* ----------------------------- auth routes ---------------------------- *)
\* users the collection may hold
MaxAccounts == 2
\* hours the clock of the auth routes runs
MaxAuthClock == 3
\* failed logins counted on one account
MaxAttempts == 6

\* routes/auth.js, its second version, the inline routes of part_003, part_006
Routes == {"auth", "auth2", "part_003", "part_006"}
\* models/User.js, package.json, part_000 and the inline schema of part_003
Models == {"User.js", "package.json", "part_000", "part_003"}
\* the inline routes use the inline schema; the route files require('../models/User')
Builds ==
  {b \in [progress : {"none"}, routes : Routes, model : Models] :
     (b.routes = "part_003") <=> (b.model = "part_003")}

\* a string as a credential value: no hash applied yet
Str(s) == [salts |-> <<>>, text |-> s]
\* bcrypt.genSalt
Salts == {"s1", "s2"}
\* bcrypt.hash(value, salt): a one-way image of the value under the salt
hash(value, salt) == [salts |-> Append(value.salts, salt), text |-> value.text]
\* bcrypt.compare(candidate, stored): hash the candidate with the stored salt
compare(candidate, stored) ==
  /\ stored.salts # <<>>
  /\ hash(Str(candidate), stored.salts[Len(stored.salts)]) = stored

\* req.body.email
EmailInputs ==
  { <<"a","@","x",".","c","o">>, <<"A","@","X",".","c","o">>,
    <<"b","@","x",".","c","o">>, <<"a","x">> }
\* req.body.password
PasswordInputs ==
  { <<"S","e","c","r","e","t","1","!">>, <<"a","b","c">> }
\* req.body.name, req.body.username
NameInputs == {"ana", "eva"}
RegisterBodies == [name : NameInputs, email : EmailInputs, password : PasswordInputs]
LoginBodies == [email : EmailInputs, password : PasswordInputs]

Accented == {"Á", "É", "Í", "Ó", "Ú", "Ñ"}
Uppers == DOMAIN LowerMap \ Accented
Lowers == {LowerMap[c] : c \in Uppers}
Digits == {"0", "1", "2", "3", "4", "5", "6", "7", "8", "9"}
Specials == {"@", "$", "!", "%", "*", "?", "&"}
MinPassword == 6
JoiMinPassword == 8
JoiMaxPassword == 128

\* registerSchema.password: min, max and the pattern with its four lookaheads
joiPassword(p) ==
  /\ Len(p) >= JoiMinPassword
  /\ Len(p) <= JoiMaxPassword
  /\ \E i \in 1..Len(p) : p[i] \in Lowers
  /\ \E i \in 1..Len(p) : p[i] \in Uppers
  /\ \E i \in 1..Len(p) : p[i] \in Digits
  /\ \E i \in 1..Len(p) : p[i] \in Specials
  /\ p[1] \in Lowers \cup Uppers \cup Digits \cup Specials

\* Joi.string().email(): a local part, an @ and a dotted domain
joiEmail(e) ==
  \E i \in 2..(Len(e) - 3) :
    /\ e[i] = "@"
    /\ \E j \in (i + 2)..(Len(e) - 1) : e[j] = "."

\* /^[^\s@]+@[^\s@]+\.[^\s@]+$/.test(email)
regexEmail(e) ==
  \E i \in 2..(Len(e) - 3) :
    /\ e[i] = "@"
    /\ \E j \in (i + 2)..(Len(e) - 1) : e[j] = "."
    /\ \A k \in 1..Len(e) : e[k] # " " /\ (e[k] = "@" => k = i)

\* the body a register handler rejects before it queries
registerRejected(route, body) ==
  CASE route = "auth"     -> \/ ~includes(body.email, <<"@">>)
                             \/ Len(body.password) < MinPassword
    [] route = "auth2"    -> \/ ~regexEmail(body.email)
                             \/ Len(body.password) < MinPassword
    [] route = "part_003" -> Len(body.password) < MinPassword
    [] route = "part_006" -> ~joiEmail(body.email) \/ ~joiPassword(body.password)

\* the email of the filter { email } after the schema's lowercase and trim
castEmail(email) == toLowerCase(trim(email))

\* new User({...}) as each register handler builds it
newUser(route, body, salt) ==
  [ email     |-> castEmail(body.email),
    password  |-> IF route \in {"auth", "auth2"} THEN Str(body.password)
                                    ELSE hash(Str(body.password), salt),
    nameField |-> IF route \in {"auth2", "part_003"} THEN "username" ELSE "name",
    name      |-> body.name,
    loginAttempts |-> 0,
    lockUntil |-> 0,
    submitted |-> body.password,
    failedSinceExpiry |-> 0 ]

\* the schema's required name path
requiredName(model) ==
  IF model \in {"User.js", "package.json"} THEN "name" ELSE "username"
\* username: { unique: true }
uniqueUsername(model) == model \in {"part_000", "part_003"}
\* the schema defines comparePassword, incLoginAttempts, resetLoginAttempts
hasMethods(model) == model = "package.json"

\* pre('save'): the password hook, where the schema has one
preSave(model, doc, modified, salt) ==
  IF model = "package.json" /\ modified
    THEN [doc EXCEPT !.password = hash(@, salt)]
    ELSE doc

\* the paths of a stored document
Paths(doc) == {"_id", "email", "password", "stats", doc.nameField}
\* toJSON with the schema's transform, where the schema has one
toJSON(model, doc) ==
  IF model \in {"User.js", "package.json"}
    THEN Paths(doc) \ {"password"}
    ELSE Paths(doc)

\* user.isLocked: no schema defines the path or a virtual of that name
isLocked(model, user) == FALSE

\* this.security.lockUntil && this.security.lockUntil < Date.now()
expired(user, date) == user.lockUntil # 0 /\ user.lockUntil < date

\* userSchema.methods.incLoginAttempts, before its save()
LockHours == 2
LockThreshold == 5
incLoginAttempts(user, date) ==
  LET counted == IF expired(user, date)
                   THEN [user EXCEPT !.loginAttempts = 1]
                   ELSE [user EXCEPT !.loginAttempts = @ + 1]
  IN IF counted.loginAttempts >= LockThreshold /\ counted.lockUntil = 0
       THEN [counted EXCEPT !.lockUntil = date + LockHours]
       ELSE counted

\* userSchema.methods.resetLoginAttempts, before its save()
resetLoginAttempts(user) == [user EXCEPT !.loginAttempts = 0, !.lockUntil = 0]

\* the account the model counts as locked
Locked(user) == user.loginAttempts >= LockThreshold /\ user.lockUntil > clock

\* res.status(status).json(...) of an auth route
AuthOut(kind, status) ==
  [ kind |-> kind, status |-> status, fields |-> {}, tokens |-> FALSE,
    duplicate |-> FALSE, credentials |-> FALSE, locked |-> FALSE ]

AuthOnly == UNCHANGED <<chatVars, build, progressVars, callVars>>

\* the response has left: the next request is read
AuthReady == out = NoOut
AuthSent ==
  /\ build.routes # "none"
  /\ out # NoOut
  /\ out' = NoOut
  /\ UNCHANGED authVars
  /\ AuthOnly

\* the stored users a filter on the email matches
Matching(email) == {i \in 1..Len(accounts) : accounts[i].email = castEmail(email)}

\* the fields of the user object in a 2xx body
responseFields(route, model, doc) ==
  CASE route \in {"auth", "auth2"} -> toJSON(model, doc)
    [] route = "part_003" -> {"id", "username", "email", "isFirstLogin"}
    [] route = "part_006" -> {"id", "name", "email", "subscriptionPlan", "createdAt"}

\* POST /register up to its await of save(): validation, findOne, new User
Register(body) ==
  /\ build.routes # "none"
  /\ AuthReady
  /\ IF registerRejected(build.routes, body)
       THEN /\ out' = AuthOut("register", 400)
            /\ UNCHANGED pending
       ELSE IF Matching(body.email) # {}
              \/ (build.routes = "part_003" /\
                    \E i \in 1..Len(accounts) : accounts[i].name = body.name)
         THEN /\ out' = [AuthOut("register", 400) EXCEPT
                           !.duplicate = Matching(body.email) # {}]
              /\ UNCHANGED pending
         ELSE /\ Len(accounts) + Len(pending) < MaxAccounts
              /\ \E salt \in Salts :
                   pending' = Append(pending, newUser(build.routes, body, salt))
              /\ out' = NoOut
  /\ UNCHANGED <<accounts, clock>>
  /\ AuthOnly

\* the rest of POST /register: save() resolves or rejects, the handler answers
Registered(k) ==
  /\ AuthReady
  /\ k \in 1..Len(pending)
  /\ pending' = SubSeq(pending, 1, k - 1) \o SubSeq(pending, k + 1, Len(pending))
  /\ \E salt \in Salts :
       LET doc == preSave(build.model, pending[k], TRUE, salt)
           sameEmail == \E i \in 1..Len(accounts) : accounts[i].email = doc.email
           sameName == /\ uniqueUsername(build.model)
                       /\ \E i \in 1..Len(accounts) : accounts[i].name = doc.name
       IN IF requiredName(build.model) # doc.nameField
            THEN /\ out' = AuthOut("register", 500)
                 /\ UNCHANGED accounts
            ELSE IF sameEmail \/ sameName
              THEN /\ out' = [AuthOut("register",
                                      IF build.routes \in {"auth", "auth2"}
                                        THEN 400 ELSE 500)
                                EXCEPT !.duplicate = sameEmail]
                   /\ UNCHANGED accounts
              ELSE /\ accounts' = Append(accounts, doc)
                   /\ out' = [AuthOut("register", 201) EXCEPT
                                !.fields = responseFields(build.routes, build.model, doc),
                                !.tokens = TRUE]
  /\ UNCHANGED clock
  /\ AuthOnly

\* POST /login
Login(body) ==
  /\ build.routes # "none"
  /\ AuthReady
  /\ LET route == build.routes
         found == Matching(body.email)
         i == CHOOSE i \in found : TRUE
         user == accounts[i]
         noUser == IF route \in {"auth", "auth2"} THEN 401 ELSE 400
         answer(status) ==
           [AuthOut("login", status) EXCEPT
              !.credentials = found # {} /\ body.password = user.submitted,
              !.locked = found # {} /\ Locked(user)]
         accepted == [answer(200) EXCEPT
                       !.fields = IF route = "part_006"
                                    THEN {"id", "name", "email", "subscriptionPlan",
                                          "preferences", "stats"}
                                    ELSE responseFields(route, build.model, user),
                       !.tokens = TRUE]
     IN IF (route = "part_006" /\ ~joiEmail(body.email))
            \/ (route = "auth2" /\ ~regexEmail(body.email))
          THEN out' = AuthOut("login", 400) /\ UNCHANGED accounts
          ELSE IF found = {}
            THEN out' = AuthOut("login", noUser) /\ UNCHANGED accounts
          ELSE IF route \in {"part_003", "part_006"}
            THEN /\ out' = IF compare(body.password, user.password)
                              THEN accepted ELSE answer(400)
                 /\ UNCHANGED accounts
          ELSE IF route = "auth" /\ isLocked(build.model, user)
            THEN out' = answer(423) /\ UNCHANGED accounts
          ELSE IF ~hasMethods(build.model)
            THEN out' = answer(500) /\ UNCHANGED accounts
          ELSE IF ~compare(body.password, user.password)
            THEN /\ out' = answer(401)
                 /\ IF route = "auth"
                      THEN /\ user.loginAttempts < MaxAttempts
                           /\ user.failedSinceExpiry < MaxAttempts
                           /\ accounts' = [accounts EXCEPT
                                ![i] = [incLoginAttempts(user, clock) EXCEPT
                                          !.failedSinceExpiry =
                                             IF expired(user, clock)
                                               THEN @ + 1 ELSE 0]]
                      ELSE UNCHANGED accounts
          ELSE /\ out' = accepted
               /\ accounts' = IF route = "auth" /\ user.loginAttempts > 0
                                THEN [accounts EXCEPT
                                        ![i] = [resetLoginAttempts(user) EXCEPT
                                                  !.failedSinceExpiry = 0]]
                                ELSE accounts
  /\ UNCHANGED <<pending, clock>>
  /\ AuthOnly

\* change-password, for the user the token names
ChangePassword(i, currentPassword, newPassword) ==
  /\ build.routes \in {"auth", "part_006"}
  /\ AuthReady
  /\ i \in 1..Len(accounts)
  /\ LET user == accounts[i]
         changed(value, salt) ==
           [preSave(build.model, [user EXCEPT !.password = value], TRUE, salt)
              EXCEPT !.submitted = newPassword]
     IN IF build.routes = "auth" /\ ~hasMethods(build.model)
          THEN out' = AuthOut("password", 500) /\ UNCHANGED accounts
          ELSE IF ~compare(currentPassword, user.password)
            THEN out' = AuthOut("password", 400) /\ UNCHANGED accounts
          ELSE IF build.routes = "auth" /\ Len(newPassword) < MinPassword
            THEN out' = AuthOut("password", 400) /\ UNCHANGED accounts
          ELSE /\ out' = AuthOut("password", 200)
               /\ \E salt \in Salts, hookSalt \in Salts :
                    accounts' = [accounts EXCEPT ![i] =
                      changed(IF build.routes = "auth"
                                THEN Str(newPassword)
                                ELSE hash(Str(newPassword), salt), hookSalt)]
  /\ UNCHANGED <<pending, clock>>
  /\ AuthOnly

\* GET /me, GET /profile, for the user the token names
Me(i) ==
  /\ build.routes # "none"
  /\ AuthReady
  /\ i \in 1..Len(accounts)
  /\ out' = [AuthOut("me", 200) EXCEPT
               !.fields = CASE build.routes \in {"auth", "auth2"} ->
                                 toJSON(build.model, accounts[i])
                            [] build.routes = "part_003" ->
                                 {"id", "username", "email", "isFirstLogin",
                                  "totalSessions", "totalMessages", "lastActivity",
                                  "moodAverage", "daysTracked"}
                            [] build.routes = "part_006" ->
                                 {"id", "name", "email", "age", "gender", "timezone",
                                  "subscriptionPlan", "preferences", "stats",
                                  "lastLogin", "createdAt"}]
  /\ UNCHANGED authVars
  /\ AuthOnly

\* the body keys a profile route takes over into the document
allowedUpdates(route) ==
  IF route = "auth" THEN {"name", "profile", "preferences", "emergency"}
                    ELSE {"name", "age", "gender", "timezone", "preferences"}

\* req.body of PATCH or PUT /profile: its keys, and the value of name
ProfileBodies ==
  [keys : {{"name"}, {"name", "email"}, {"password"}, {"preferences"}},
   name : NameInputs]

\* PATCH /profile (routes/auth.js), PUT /profile (part_006), for the user the
\* token names
UpdateProfile(i, body) ==
  /\ build.routes \in {"auth", "part_006"}
  /\ AuthReady
  /\ i \in 1..Len(accounts)
  /\ LET user == accounts[i]
         answer(status, fields, written) ==
           [AuthOut("profile", status) EXCEPT !.fields = fields]
             @@ [named |-> body.keys, written |-> written]
     IN IF build.routes = "auth" /\ ~(body.keys \subseteq allowedUpdates("auth"))
          THEN /\ out' = answer(400, {}, {})
               /\ UNCHANGED accounts
          ELSE /\ accounts' = [accounts EXCEPT ![i] =
                    IF "name" \in body.keys THEN [user EXCEPT !.name = body.name]
                                            ELSE user]
               /\ out' = IF build.routes = "auth"
                           THEN answer(200, toJSON(build.model, user),
                                       body.keys \cup {"stats"})
                           ELSE answer(200, {"id", "name", "email", "age", "gender",
                                             "timezone", "preferences"},
                                       body.keys \cap allowedUpdates("part_006"))
  /\ UNCHANGED <<pending, clock>>
  /\ AuthOnly

\* an hour passes; the hours count from the first lock, the only date stored
AuthTick ==
  /\ build.routes # "none"
  /\ AuthReady
  /\ \E i \in 1..Len(accounts) : accounts[i].lockUntil # 0
  /\ clock < MaxAuthClock
  /\ clock' = clock + 1
  /\ out' = NoOut
  /\ UNCHANGED <<accounts, pending>>
  /\ AuthOnly

InitAuth ==
  /\ InitWith(<<"free", limits.free - 1>>)
  /\ build \in Builds
  /\ ProgressInit
  /\ AuthInit
  /\ CallInit
  /\ out = NoOut

NextAuth ==
  \/ \E body \in RegisterBodies : Register(body)
  \/ \E k \in 1..MaxAccounts : Registered(k)
  \/ \E body \in LoginBodies : Login(body)
  \/ \E i \in 1..MaxAccounts, p \in PasswordInputs, q \in PasswordInputs :
       ChangePassword(i, p, q)
  \/ \E i \in 1..MaxAccounts : Me(i)
  \/ \E i \in 1..MaxAccounts, body \in ProfileBodies : UpdateProfile(i, body)
  \/ AuthTick
  \/ AuthSent

SpecAuth == InitAuth /\ [][NextAuth]_vars

(* ------------------ the text functions, called alone ------------------ *)
\* fragments a text is put together from
MaxWords == 3

Words ==
  { <<"K","i","l","l"," ","M","e">>,
    <<"a","c","a","b","a","r"," ","c","o","n"," ","t","o","d","o">>,
    <<"q","u","i","e","r","o">>,
    <<"M","U","Y"," ","M","A","L">>,
    <<"n","o"," ","p","u","e","d","o"," ","m","á","s">>,
    <<"h","o","l","a">>,
    <<"m","e"," ","s","i","e","n","t","o"," ","a","n","s","i","o","s","o">>,
    <<"t","e","n","g","o"," ","a","n","s","i","e","d","a","d">> }

\* the fragments with one space between them
RECURSIVE join(_)
join(words) ==
  IF words = <<>> THEN <<>>
  ELSE IF Len(words) = 1 THEN words[1]
  ELSE words[1] \o <<" ">> \o join(Tail(words))

CallOnly == UNCHANGED <<chatVars, build, progressVars, authVars, out>>

\* the client types one more fragment
Type(word) ==
  /\ Len(input) < MaxWords
  /\ input' = Append(input, word)
  /\ output' = NoOut
  /\ CallOnly

\* detectCrisis(message) and detectCrisisLevel(message)
Detect ==
  /\ output' = [kind |-> "detect",
                status |-> 0,
                crisis |-> detectCrisisOf(join(input)),
                level |-> detectCrisisLevel(join(input))]
  /\ input' = input
  /\ CallOnly

\* generateSuggestions(message)
Suggest ==
  /\ output' = [kind |-> "suggest",
                status |-> 0,
                suggestions |-> generateSuggestionsOf(join(input))]
  /\ input' = input
  /\ CallOnly

InitText ==
  /\ InitWith(<<"free", limits.free - 1>>)
  /\ build = NoBuild
  /\ ProgressInit
  /\ AuthInit
  /\ CallInit
  /\ out = NoOut

NextText ==
  \/ \E word \in Words : Type(word)
  \/ Detect
  \/ Suggest

SpecText == InitText /\ [][NextText]_vars

(* --------------- updateSessionStats, called again and again ------------ *)
\* calls of updateSessionStats on one user
MaxStarts == 4

\* the time between two calls: none, half a day, one, two, three days
Gaps == {0, MsPerDay \div 2, MsPerDay, 2 * MsPerDay, 3 * MsPerDay}

\* user.updateSessionStats() after `gap` milliseconds; its save() succeeds
UpdateSessionStats(gap) ==
  /\ input.user.stats.totalSessions < MaxStarts
  /\ LET date == input.date + gap
         user == updateSessionStats(input.user, date)
     IN  /\ input' = [user |-> user, date |-> date]
         /\ output' = [kind |-> "stats", status |-> 0,
                       previous |-> input.user.stats.lastSessionDate,
                       date |-> date,
                       before |-> input.user.stats.streakDays,
                       after |-> user.stats.streakDays]
  /\ CallOnly

InitStats ==
  /\ InitWith(<<"free", limits.free - 1>>)
  /\ build = NoBuild
  /\ ProgressInit
  /\ AuthInit
  /\ input = [user |-> NewUser("premium", 0, "es"), date |-> 0]
  /\ output = NoOut
  /\ out = NoOut

NextStats == \E gap \in Gaps : UpdateSessionStats(gap)

SpecStats == InitStats /\ [][NextStats]_vars

(* ------------------- the messages sent upstream ------------------------ *)
\* exchanges in one conversation
MaxExchanges == 6
\* conversation.messages.slice(-10)
HistorySlice == 10
\* conversationHistory.slice(-12)
RecentSlice == 12

\* `from` names where an entry was taken from: the prompt constant, the
\* message of the conversation with that id, or the message parameter
promptMessages(message, conversationHistory) ==
  LET recentHistory == sliceLast(conversationHistory, RecentSlice)
      turns == SelectSeq(recentHistory,
                         LAMBDA msg : msg.role = "user" \/ msg.role = "assistant")
  IN  <<[role |-> "system", content |-> "SYSTEM_PROMPT", from |-> 0]>>
      \o [i \in 1..Len(turns) |->
            [role |-> turns[i].role, content |-> turns[i].content,
             from |-> turns[i].id]]
      \o <<[role |-> "user", content |-> message.content, from |-> -1]>>

\* POST /message from the push of the user's message to the push of the
\* reply, with the completion in between
Exchange(text) ==
  /\ Len(input) < 2 * MaxExchanges
  /\ LET userMessage == [id |-> Len(input) + 1, role |-> "user", content |-> text]
         messages == push(input, userMessage)
         sent == promptMessages(userMessage, sliceLast(messages, HistorySlice))
         aiMessage == [id |-> Len(messages) + 1, role |-> "assistant",
                       content |-> "completion"]
     IN  /\ output' = [kind |-> "prompt", status |-> 0, messages |-> sent,
                       id |-> userMessage.id]
         /\ input' = push(messages, aiMessage)
  /\ CallOnly

InitPrompt ==
  /\ InitWith(<<"free", limits.free - 1>>)
  /\ build = NoBuild
  /\ ProgressInit
  /\ AuthInit
  /\ input = <<[id |-> 1, role |-> "system", content |-> "welcome"]>>
  /\ output = NoOut
  /\ out = NoOut

NextPrompt == \E text \in {"hola", "ansioso"} : Exchange(text)

SpecPrompt == InitPrompt /\ [][NextPrompt]_vars

(* ------------------------------ claims -------------------------------- *)
Requester == UserOf(last.userId)

Range(seq) == {seq[i] : i \in 1..Len(seq)}

IsPrefix(s, t) == Len(s) <= Len(t) /\ SubSeq(t, 1, Len(s)) = s

Roles(messages) == [i \in 1..Len(messages) |-> messages[i].role]

\* a non-crisis message of 1..2000 characters
Valid(message) ==
  LET text == trim(Chars[message])
  IN  Len(text) >= 1 /\ Len(text) <= MaxMessageLength /\ ~detectCrisis(message)

\* the request answered by `last` ran the crisis detector, and it fired
CrisisAnswered ==
  /\ last.kind = "message"
  /\ last.res.status # 404
  /\ detectCrisis(last.message)

C2_Original ==
  last.kind = "message" /\ last.upstream \in {"throw", "malformed"} =>
    /\ last.res.status = 200
    /\ last.res.type = "message"
    /\ last.res.content # ""

\* C3: when loading or saving the user for the usage-stats update of a
\* POST /message fails after the assistant reply was generated, the caller
\* still receives 200 with the assistant message.
C3_Original ==
  last.kind = "message" /\ last.calls = 1 /\ last.storeFailed =>
    /\ last.res.status = 200
    /\ last.res.type = "message"

\* C4: in no conversation is a user message whose reply has been appended
\* followed by anything but that reply: user1, user2, assistant1 (and so
\* user1, user2, assistant1, assistant2) is unreachable.
C4_Original ==
  \A c \in 1..Len(heap) :
    LET m == heap[c].messages
    IN  \A i \in 1..Len(m) :
          /\ m[i].role = "user"
          /\ \E j \in (i + 1)..Len(m) : m[j].role = "assistant" /\ m[j].of = m[i].of
          => m[i + 1].role = "assistant" /\ m[i + 1].of = m[i].of

\* C5: a non-crisis send that overlaps no other send on its conversation
\* appends its user message and then its assistant reply next to each other
\* at the end of the list, and no step reorders or removes the messages a
\* conversation already holds; so two sequential sends leave
\* [user1, assistant1, user2, assistant2] after what the list held before.
C5_SequentialSends ==
  [][/\ \A c \in 1..Len(heap) : IsPrefix(heap[c].messages, heap'[c].messages)
     /\ \A r \in Slots :
          req[r].pc = "completing" /\ req'[r].pc = "stats" /\ req[r].solo =>
            LET old == heap[req[r].conversation].messages
                new == heap'[req[r].conversation].messages
            IN  /\ Len(new) = Len(old) + 1
                /\ old[Len(old)].role = "user"
                /\ old[Len(old)].of = r
                /\ old[Len(old)].content = req[r].message
                /\ new[Len(new)].role = "assistant"
                /\ new[Len(new)].of = r]_vars

C5_Witness ==
  \E r \in Slots :
    /\ req[r].pc = "stats"
    /\ req[r].solo
    /\ Roles(heap[req[r].conversation].messages) =
         <<"system", "user", "assistant", "user", "assistant">>

\* C6: a POST /message with a valid token, a non-crisis message of 1..2000
\* characters and a conversationId returned by that same user's
\* POST /session/start (not yet ended) is answered 200 with the assistant
\* message; 404 is returned only when the conversation is unknown or
\* belongs to another user.
C6_Original ==
  last.kind = "message" =>
    /\ ( /\ Valid(last.message)
         /\ last.conversationId \in Range(returned)
         /\ last.owner = Requester
         => last.res.status = 200 /\ last.res.type = "message" )
    /\ ( last.res.status = 404 => last.owner # Requester )

\* C7: a POST /message, GET /conversation/:id or POST /session/end by a user
\* who is not the owner of the conversation it names neither exposes nor
\* changes the conversation: message and get are answered 404, and the
\* store (messages, context, presence of every conversation) is the same
\* afterwards; no such request is ever in flight in the message handler.
C7_NoCrossAccess ==
  [][/\ \A r \in Slots :
          req'[r].kind = "message" => req'[r].owner = UserOf(req'[r].userId)
     /\ ( /\ last'.kind \in {"message", "get", "end"}
          /\ last'.owner \notin {"none", UserOf(last'.userId)}
          => /\ last'.kind \in {"message", "get"} => last'.res.status = 404
             /\ last'.res.exposed = NoObject
             /\ heap' = heap
             /\ conversations' = conversations )]_vars

C7_Witness ==
  /\ last.kind = "end"
  /\ last.owner = "A"
  /\ Requester = "B"
  /\ get(last.conversationId) # NoObject
  /\ Len(heap[get(last.conversationId)].messages) > 1

\* C8: the gate of POST /session/start, having read the user's count,
\* answers 429 exactly when the plan is free and sessionsThisWeek >= 5 or
\* the plan is basic and sessionsThisWeek >= 20; premium is never rejected.
C8_Gate ==
  last.kind = "start" /\ last.seen >= 0 =>
    LET plan == users[Requester].subscriptionPlan
    IN  last.res.status = 429 <=>
          \/ plan = "free" /\ last.seen >= 5
          \/ plan = "basic" /\ last.seen >= 20

\* a free user with sessionsThisWeek = 5 is rejected
C8_Witness ==
  /\ last.kind = "start"
  /\ users[Requester].subscriptionPlan = "free"
  /\ last.seen = 5
  /\ last.res.status = 429

\* successful session starts of user u
Started(u) == Cardinality({i \in 1..Len(returned) : returned[i][1] = u})

\* C9: under every interleaving of POST /session/start requests, a free
\* (basic) user's stored sessionsThisWeek never exceeds 5 (20) and the user
\* never obtains more successful starts than the quota leaves: every user
\* begins one session below the quota, so at most one.
C9_Original ==
  \A u \in Users :
    LET limit == limits[users[u].subscriptionPlan]
    IN  limit # -1 =>
          /\ users[u].stats.sessionsThisWeek <= limit
          /\ (limit - 1) + Started(u) <= limit

\* C10: every successful POST /session/start returns a conversationId
\* different from every identifier returned before.
C10_Original ==
  \A i, j \in 1..Len(returned) : i # j => returned[i] # returned[j]

\* C11: after any sequence of n addMoodEntry calls stats.moodTrends holds
\* exactly the most recent min(n, 100) submitted entries, oldest first; its
\* length never exceeds 100.
C11_MoodTrends ==
  /\ Len(tracker.moodTrends) = Min(Len(submitted), MoodCap)
  /\ MoodsOf(tracker.moodTrends) = sliceLast(submitted, MoodCap)

\* after 105 inserts the last 100 remain
C11_Witness ==
  /\ Len(submitted) = 105
  /\ Len(tracker.moodTrends) = 100
  /\ tracker.moodTrends[1].mood = submitted[6]

\* an integer mood in 1..10, in tenths
IntegerMood(mood) == mood \in {10 * k : k \in 1..10}

\* C12: a mood submission whose value is not an integer in 1..10 is
\* answered 400 and changes no user state; an accepted mood 7 is present in
\* the next mood-history response.
C12_Original ==
  /\ out.kind = "mood" /\ ~IntegerMood(out.mood) => out.status = 400
  /\ out.kind = "history" /\ submitted # <<>> /\ submitted[Len(submitted)] = 70 =>
       \E i \in 1..Len(out.history) : out.history[i] = 70

\* C13: a registration whose email equals an existing user's email, ignoring
\* letter case, is answered 400 and creates no user, so no two users share an
\* email up to case; two concurrent registrations with one email included.
C13_Original ==
  /\ \A i, j \in 1..Len(accounts) :
       i # j => toLowerCase(accounts[i].email) # toLowerCase(accounts[j].email)
  /\ out.kind = "register" /\ out.duplicate => out.status = 400

\* C14: no response body of any route contains the user's password field,
\* hashed or plain.
C14_Original ==
  out.kind \in {"register", "login", "me", "password"} => "password" \notin out.fields

\* C15: the password stored for every user is a salted hash of the submitted
\* password and never the plaintext, after registration and after
\* change-password, for every register route with every User model.
C15_Original ==
  \A i \in 1..Len(accounts) :
    accounts[i].password \in {hash(Str(accounts[i].submitted), salt) : salt \in Salts}

\* C16: after a successful registration with (email, password), a login with
\* the same email and password is answered 200 with a token pair.
C16_Original ==
  out.kind = "login" /\ out.credentials => out.status = 200 /\ out.tokens

\* C17: a login on an account in the locked state (5 or more failed attempts,
\* lock-until in the future) is answered 423 whatever the password, and
\* issues no tokens.
C17_Original ==
  out.kind = "login" /\ out.locked => out.status = 423 /\ ~out.tokens

\* the trimmed message has 1..2000 characters
InCap(message) ==
  LET text == trim(Chars[message])
  IN  Len(text) >= 1 /\ Len(text) <= MaxMessageLength

C19_Original ==
  [][ /\ last'.kind = "message"
      /\ last' # last
      /\ last'.res.status = 200
      /\ last'.res.type = "message"
      => users'[UserOf(last'.userId)].stats.totalMessages
           = users[UserOf(last'.userId)].stats.totalMessages + 1 ]_vars

\* C20: the crisis path of POST /message changes no stored state: no step of
\* a request whose message fires the detector changes a user's counters or
\* a conversation's message list or context.
C20_CrisisFrame ==
  [][\A r \in Slots :
       /\ req'[r] # req[r]
       /\ \/ req[r].kind = "message" /\ detectCrisis(req[r].body.message)
          \/ req'[r].kind = "message" /\ detectCrisis(req'[r].body.message)
       => UNCHANGED <<users, heap, conversations>>]_vars

\* a crisis alert answered in a conversation that holds its welcome only
C20_Witness ==
  /\ CrisisAnswered
  /\ last.res.status = 200
  /\ last.res.type = "crisis_alert"
  /\ get(last.conversationId) # NoObject
  /\ Len(heap[get(last.conversationId)].messages) = 1
  /\ users[Requester].stats.totalMessages = 0

\* phrase k occurs in s
Occurs(k, s) == \E i \in 0..(Len(s) - Len(k)) : SubSeq(s, i + 1, i + Len(k)) = k

\* some phrase of a list occurs in the lower-cased text typed
Listed(keywords) ==
  \E k \in Range(keywords) : Occurs(k, toLowerCase(join(input)))

\* C21: for every text, the empty one included, detectCrisis is true exactly
\* when the lower-cased text contains one of its phrases, and
\* detectCrisisLevel returns the highest tier, high over medium over low,
\* that has a phrase in the text, none when no tier has.
C21_Detectors ==
  output.kind = "detect" =>
    /\ output.crisis = Listed(crisisKeywords)
    /\ output.level =
         IF Listed(crisisLevelKeywords.high) THEN "high"
         ELSE IF Listed(crisisLevelKeywords.medium) THEN "medium"
         ELSE IF Listed(crisisLevelKeywords.low) THEN "low"
         ELSE "none"

\* a text with a phrase of the high and one of the low tier is graded high
C21_Witness ==
  /\ output.kind = "detect"
  /\ output.level = "high"
  /\ output.crisis
  /\ Listed(crisisLevelKeywords.low)

\* the text names anxiety
AnxietyWords == { <<"a","n","s","i","o","s","o">>, <<"a","n","s","i","e","d","a","d">> }
\* the suggestions of the anxiety category
AnxietySuggestions == Range(suggestionRules[1].push)

\* C22: for a non-crisis message with an anxiety-related word the
\* suggestions are non-empty, at most 4, and hold at least one suggestion
\* of the anxiety category.
C22_Original ==
  /\ output.kind = "suggest"
  /\ \E w \in AnxietyWords : Occurs(w, toLowerCase(join(input)))
  /\ ~detectCrisisOf(join(input))
  => /\ output.suggestions # <<>>
     /\ Len(output.suggestions) <= 4
     /\ Range(output.suggestions) \cap AnxietySuggestions # {}

\* C28: for every text, detectCrisisLevel(text) = 'high' implies
\* detectCrisis(text) = true.
C28_Original ==
  output.kind = "detect" /\ output.level = "high" => output.crisis

\* C23: a profile update whose body names a field outside the allow-list is
\* answered 400 and leaves the user record unchanged, and no accepted
\* profile update changes a field outside the allow-list.
C23_Original ==
  [][ out'.kind = "profile" /\ out' # out =>
        /\ ~(out'.named \subseteq allowedUpdates(build.routes)) =>
             out'.status = 400 /\ accounts' = accounts
        /\ out'.status = 200 =>
             out'.written \subseteq allowedUpdates(build.routes) ]_vars

\* C24: updateSessionStats derives the streak from the gap between the new
\* session and the stored lastSessionDate: one day later streakDays grows
\* by 1, more than one day later it is reset to 1, the same day it stays.
C24_Original ==
  output.kind = "stats" /\ output.previous >= 0 =>
    LET days == (output.date - output.previous) \div MsPerDay
    IN  output.after = IF days = 1 THEN output.before + 1
                       ELSE IF days > 1 THEN 1
                       ELSE output.before

\* C25: the list sent upstream for a POST /message is the system prompt,
\* then at most 10 history turns of role user or assistant in conversation
\* order, and the new user message exactly once, as the last element.
C25_Original ==
  output.kind = "prompt" =>
    LET sent == output.messages
        n == Len(sent)
    IN  /\ sent[1].role = "system"
        /\ \A i \in 2..n : sent[i].role \in {"user", "assistant"}
        /\ n - 2 <= HistorySlice
        /\ \A i, j \in 2..(n - 1) : i < j => sent[i].from < sent[j].from
        /\ sent[n].role = "user" /\ sent[n].from = -1
        /\ \A i \in 2..(n - 1) : sent[i].from # output.id

\* C26: a POST /session/start that ends in 500 has no effect: no
\* conversation entry of that request remains in the store and the user's
\* totalSessions and sessionsThisWeek are unchanged.
C26_Original ==
  [][\A r \in Slots :
       /\ req[r].kind = "start"
       /\ req'[r].pc = "idle"
       /\ last'.kind = "start"
       /\ last'.res.status = 500
       => /\ \/ req[r].conversationId \notin DOMAIN conversations'
             \/ conversations'[req[r].conversationId] = NoObject
          /\ users' = users]_vars

(* ------------------- session starts, one after another ---------------- *)
\* session starts admitted past the gate when only sessions are started
MaxStartSessions == 3

\* router.post('/session/start', auth, checkSessionLimit, handler)
PostSessionStart(r) ==
  /\ Len(heap) < MaxStartSessions
  /\ \E u \in Users : StartSession(r, auth(u))

NextStart ==
  \/ Sent /\ ChatOnly
  \/ Tick /\ ChatOnly
  \/ \E r \in Slots : PostSessionStart(r) /\ ChatOnly
  \/ \E r \in Slots : StartUserLoaded(r) /\ ChatOnly
  \/ \E r \in Slots : StartSaved(r) /\ ChatOnly

SpecStart == Init /\ [][NextStart]_vars

\* C27: stats.sessionsThisWeek never goes down, whatever the operation, so
\* a user who has reached the quota stays at or above it.
C27_Original ==
  [][\A u \in DOMAIN users :
       users'[u].stats.sessionsThisWeek >= users[u].stats.sessionsThisWeek]_vars

\* C29: five consecutive failed logins after a lock has expired lock the
\* account again: when the fifth of them has been counted the account has a
\* lockUntil that has not passed.
C29_Original ==
  [][\A i \in 1..Len(accounts) :
       /\ accounts'[i].failedSinceExpiry # accounts[i].failedSinceExpiry
       /\ accounts'[i].failedSinceExpiry >= LockThreshold
       => accounts'[i].lockUntil >= clock']_vars

\* C30: an accepted mood submission changes only the mood data and the
\* last-activity time: it leaves the session counters, here totalSessions,
\* as they were.
C30_Original ==
  [][/\ out'.kind = "mood"
     /\ out'.status = 200
     /\ submitted' # submitted
     => tracker'.totalSessions = tracker.totalSessions]_vars

====
